---- MODULE Spec2Model ----
(***************************************************************************)
(* Gaussian naive Bayes scoring of src/NaiveBayes.h.                       *)
(*                                                                         *)
(* Numbers.  The C code computes in double.  Training features and sample  *)
(* values are small integers here, every intermediate value is kept exact: *)
(*   - a finite number is a reduced fraction [k |-> "fin", n, d], d > 0;   *)
(*   - 0.0/0.0 is [k |-> "nan"], x/0.0 with x > 0 is [k |-> "inf"];        *)
(*   - sqrt(x) is kept as its argument x (the radicand);                   *)
(*   - a density a*b of calcHSVCT_PDF is kept as the pair (sd^2, exponent) *)
(*     that determines it, a product of densities as the list of its       *)
(*     factors.  exp() of the exponents reachable here is far from the     *)
(*     underflow threshold of double, so a*b is strictly positive.         *)
(***************************************************************************)
EXTENDS Integers, Sequences, FiniteSets

\* ---------------------------------------------------------------- bounds
MaxLen == 2        \* longest training list
MaxVal == 2        \* largest feature value of a training item or sample

\* ------------------------------------------------------- program constants
NCLASSES == 7

HUE == "h"
SATURATION == "s"
VALUE == "v"
COMPACTNESS == "c"
TEXTURE == "t"
Attrs == {HUE, SATURATION, VALUE, COMPACTNESS, TEXTURE}

\* ------------------------------------------------------------- arithmetic
RECURSIVE GCD(_, _)
GCD(a, b) == IF b = 0 THEN a ELSE GCD(b, a % b)

Abs(x) == IF x < 0 THEN -x ELSE x

NaN == [k |-> "nan"]
Inf == [k |-> "inf"]

\* the double n/d for integers n and d > 0, reduced
Fin(n, d) ==
    LET g == GCD(Abs(n), d)
    IN  [k |-> "fin", n |-> n \div g, d |-> d \div g]

Int2Dbl(i) == Fin(i, 1)

\* x - y
Sub(x, y) ==
    IF x.k = "nan" \/ y.k = "nan" THEN NaN
    ELSE IF x.k = "inf" \/ y.k = "inf" THEN IF x.k = y.k THEN NaN ELSE Inf
    ELSE Fin(x.n * y.d - y.n * x.d, x.d * y.d)

\* x + y
Add(x, y) ==
    IF x.k = "nan" \/ y.k = "nan" THEN NaN
    ELSE IF x.k = "inf" \/ y.k = "inf" THEN Inf
    ELSE Fin(x.n * y.d + y.n * x.d, x.d * y.d)

\* x * y
Mul(x, y) ==
    IF x.k = "nan" \/ y.k = "nan" THEN NaN
    ELSE IF x.k = "inf" \/ y.k = "inf"
         THEN IF (x.k = "fin" /\ x.n = 0) \/ (y.k = "fin" /\ y.n = 0) THEN NaN ELSE Inf
    ELSE Fin(x.n * y.n, x.d * y.d)

\* x / y, IEEE 754: 0/0 is not a number, x/0 is infinite
Div(x, y) ==
    IF x.k = "nan" \/ y.k = "nan" THEN NaN
    ELSE IF x.k = "inf" THEN IF y.k = "inf" THEN NaN ELSE Inf
    ELSE IF y.k = "inf" THEN Fin(0, 1)
    ELSE IF y.n = 0 THEN IF x.n = 0 THEN NaN ELSE Inf
    ELSE IF y.n < 0 THEN Fin(-(x.n * y.d), x.d * (-y.n))
    ELSE Fin(x.n * y.d, x.d * y.n)

\* pow(x, 2)
Pow2(x) == Mul(x, x)

\* x > 0 (false for a NaN)
Gt0(x) == (x.k = "inf") \/ (x.k = "fin" /\ x.n > 0)

\* sqrt(x), kept as its radicand
Sqrt(x) == [radicand |-> x]

\* sd > 0 for sd = sqrt(x)
SqrtGt0(sd) == Gt0(sd.radicand)

\* densities and their products
Zero == [k |-> "zero"]
NotANumber == [k |-> "nan"]
Pos(fs) == [k |-> "pos", f |-> fs]

\* x * y on densities: 0.0 * finite = 0.0, NaN propagates
Times(x, y) ==
    IF x.k = "nan" \/ y.k = "nan" THEN NotANumber
    ELSE IF x.k = "zero" \/ y.k = "zero" THEN Zero
    ELSE Pos(x.f \o y.f)

\* ------------------------------------------------------ calcHSVCT_Mean
\* mutant: the guard also asks for c, as the deviation's guard does
MeanValid_WithCompactness(item, fruitName) ==
    /\ item.fruitName = fruitName
    /\ item.h # 0
    /\ item.s # 0
    /\ item.v # 0
    /\ item.c # 0
    /\ item.t # 0

\* mutant: the guard forgets t
MeanValid_NoTexture(item, fruitName) ==
    /\ item.fruitName = fruitName
    /\ item.h # 0
    /\ item.s # 0
    /\ item.v # 0

\* the guard of the mean's scan: label equal, h, s, v and t non-zero
MeanValid(item, fruitName) ==
    /\ item.fruitName = fruitName
    /\ item.h # 0
    /\ item.s # 0
    /\ item.v # 0
    /\ item.t # 0

\* mean += <the attribute selected>
MeanAdd(mean, item, attr) ==
    IF HUE = attr THEN Add(mean, Int2Dbl(item.h))
    ELSE IF SATURATION = attr THEN Add(mean, Int2Dbl(item.s))
    ELSE IF VALUE = attr THEN Add(mean, Int2Dbl(item.v))
    ELSE IF COMPACTNESS = attr THEN Add(mean, Int2Dbl(item.c))
    ELSE IF TEXTURE = attr THEN Add(mean, Int2Dbl(item.t))
    ELSE mean

\* the while loop, from item i of the list on; yields the two accumulators
RECURSIVE MeanLoop(_, _, _, _, _, _)
MeanLoop(p_head, i, fruitName, attr, mean, divisor) ==
    IF i > Len(p_head) THEN [mean |-> mean, divisor |-> divisor]
    ELSE IF MeanValid(p_head[i], fruitName)
         THEN MeanLoop(p_head, i + 1, fruitName, attr,
                       MeanAdd(mean, p_head[i], attr), Add(divisor, Int2Dbl(1)))
         ELSE MeanLoop(p_head, i + 1, fruitName, attr, mean, divisor)

\* mutant: the division is not guarded
MeanResult_NoGuard(acc) == Div(acc.mean, acc.divisor)

\* if(divisor > 0.0) mean = mean/divisor
MeanResult(acc) ==
    IF Gt0(acc.divisor) THEN Div(acc.mean, acc.divisor) ELSE acc.mean

calcHSVCT_Mean(p_head, fruitName, attr) ==
    MeanResult(MeanLoop(p_head, 1, fruitName, attr, Int2Dbl(0), Int2Dbl(0)))

\* -------------------------------------------------------- calcHSVCT_SD
\* mutant: the guard is the mean's guard
SDValid_NoCompactness(item, fruitName) ==
    /\ item.fruitName = fruitName
    /\ item.h # 0
    /\ item.s # 0
    /\ item.v # 0
    /\ item.t # 0

\* the guard of the deviation's scan: the mean's guard and c non-zero
SDValid(item, fruitName) ==
    /\ item.fruitName = fruitName
    /\ item.h # 0
    /\ item.s # 0
    /\ item.v # 0
    /\ item.c # 0
    /\ item.t # 0

\* sumOfSqDiff += pow(<the attribute selected> - avg, 2)
SDAdd(sumOfSqDiff, item, attr, avg) ==
    IF HUE = attr THEN Add(sumOfSqDiff, Pow2(Sub(Int2Dbl(item.h), avg)))
    ELSE IF SATURATION = attr THEN Add(sumOfSqDiff, Pow2(Sub(Int2Dbl(item.s), avg)))
    ELSE IF VALUE = attr THEN Add(sumOfSqDiff, Pow2(Sub(Int2Dbl(item.v), avg)))
    ELSE IF COMPACTNESS = attr THEN Add(sumOfSqDiff, Pow2(Sub(Int2Dbl(item.c), avg)))
    ELSE IF TEXTURE = attr THEN Add(sumOfSqDiff, Pow2(Sub(Int2Dbl(item.t), avg)))
    ELSE sumOfSqDiff

RECURSIVE SDLoop(_, _, _, _, _, _, _)
SDLoop(p_head, i, fruitName, attr, avg, sumOfSqDiff, divisor) ==
    IF i > Len(p_head) THEN [sumOfSqDiff |-> sumOfSqDiff, divisor |-> divisor]
    ELSE IF SDValid(p_head[i], fruitName)
         THEN SDLoop(p_head, i + 1, fruitName, attr, avg,
                     SDAdd(sumOfSqDiff, p_head[i], attr, avg), Add(divisor, Int2Dbl(1)))
         ELSE SDLoop(p_head, i + 1, fruitName, attr, avg, sumOfSqDiff, divisor)

\* sd = sqrt( sumOfSqDiff/divisor ), no guard on the divisor
SDResult(acc) == Sqrt(Div(acc.sumOfSqDiff, acc.divisor))

calcHSVCT_SD(p_head, fruitName, attr) ==
    SDResult(SDLoop(p_head, 1, fruitName, attr,
                    calcHSVCT_Mean(p_head, fruitName, attr), Int2Dbl(0), Int2Dbl(0)))

\* ------------------------------------------------------- calcHSVCT_PDF
\* the locals mean and sd
PDFLocals(p_head, fruitName, attr) ==
    [mean |-> calcHSVCT_Mean(p_head, fruitName, attr),
     sd   |-> calcHSVCT_SD(p_head, fruitName, attr)]

\* a * b with a = 1/(sd*sqrt(2*CV_PI)), b = exp(-pow(val-mean,2) / (2*pow(sd,2))):
\* determined by sd^2 and the exponent's magnitude when both are finite and
\* sd^2 > 0; otherwise a or b is not a number, or a is infinite and b is 0.0
Gauss(mean, sd, val) ==
    LET e == Div(Pow2(Sub(val, mean)), Mul(Int2Dbl(2), sd.radicand))
    IN  IF e.k = "fin" /\ sd.radicand.k = "fin" /\ sd.radicand.n > 0
        THEN Pos(<<[sd2 |-> sd.radicand, e |-> e]>>)
        ELSE NotANumber

\* mutant: the density is computed whatever sd is
PDFResult_NoGuard(l, val) == Gauss(l.mean, l.sd, val)

\* pdf = 0.0 unless sd > 0
PDFResult(l, val) ==
    IF SqrtGt0(l.sd) THEN Gauss(l.mean, l.sd, val) ELSE Zero

calcHSVCT_PDF(p_head, fruitName, attr, val) ==
    PDFResult(PDFLocals(p_head, fruitName, attr), val)

\* ------------------------------------------------------- calcPosterior
\* mutant: the texture density is multiplied in
PosteriorProduct_WithTexture(pH, pS, pV, pC, pT) ==
    Times(Times(Times(Times(pH, pS), pV), pC), pT)

\* mutant: the texture density takes the place of the hue density
PosteriorProduct_TextureForHue(pH, pS, pV, pC, pT) ==
    Times(Times(Times(pT, pS), pV), pC)

\* post = pH*pS*pV*pC
PosteriorProduct(pH, pS, pV, pC, pT) == Times(Times(Times(pH, pS), pV), pC)

\* the five densities printed and the posterior returned
calcPosterior(tDataHead, class, sampleHSV, sampleC, texture) ==
    LET pH == calcHSVCT_PDF(tDataHead, class, HUE, Int2Dbl(sampleHSV[1]))
        pS == calcHSVCT_PDF(tDataHead, class, SATURATION, Int2Dbl(sampleHSV[2]))
        pV == calcHSVCT_PDF(tDataHead, class, VALUE, Int2Dbl(sampleHSV[3]))
        pC == calcHSVCT_PDF(tDataHead, class, COMPACTNESS, Int2Dbl(sampleC))
        pT == calcHSVCT_PDF(tDataHead, class, TEXTURE, Int2Dbl(texture))
    IN  [class |-> class, pH |-> pH, pS |-> pS, pV |-> pV, pC |-> pC, pT |-> pT,
         post |-> PosteriorProduct(pH, pS, pV, pC, pT)]

\* ------------------------------------------------------ calcPosteriors
\* the candidate classes; only the class field of an HSV_Range is read
classes ==
    <<[class |-> "banana"], [class |-> "apple"], [class |-> "kiwi"],
      [class |-> "lemon"], [class |-> "pear"], [class |-> "plum"],
      [class |-> "orange"]>>

\* the list with one more (label, score) entry at its end
addPosterior(post, class, pProb) == Append(post, [class |-> class, prob |-> pProb])

\* ------------------------------------------------------------- inputs
\* the item whose five features all read x
Full(name, x) == [fruitName |-> name, h |-> x, s |-> x, v |-> x, c |-> x, t |-> x]

\* training items: one pear, the uniform apples, and the apple of the largest
\* reading with one feature missing (0) or reading 1
Items ==
    {Full("pear", 1)}
    \cup {Full("apple", x) : x \in 1..MaxVal}
    \cup {[Full("apple", MaxVal) EXCEPT ![f] = y] : f \in Attrs, y \in {0, 1}}

RECURSIVE Lists(_)
Lists(n) ==
    IF n = 0 THEN {<<>>}
    ELSE Lists(n - 1) \cup {Append(l, i) : l \in {m \in Lists(n - 1) : Len(m) = n - 1}, i \in Items}

\* samples: the five features all read x
Samples == {[hsv |-> <<x, x, x>>, c |-> x, t |-> x] : x \in 1..MaxVal}

\* ----------------------------------------------------------- the machine
VARIABLES
    tData,      \* the training list, head first
    hsvSample,  \* the sample's hue, saturation and value
    cSample,    \* the sample's compactness
    texture,    \* the sample's texture
    class,      \* the loop counter of calcPosteriors
    post,       \* the list of posteriors built so far
    line,       \* what the latest calcPosterior printed and returned
    locals,     \* mean and sd of the latest calcHSVCT_PDF call of each attribute
    pc          \* "loop" inside calcPosteriors, "done" once it has returned

vars == <<tData, hsvSample, cSample, texture, class, post, line, locals, pc>>

NoLine == [class |-> "", pH |-> Zero, pS |-> Zero, pV |-> Zero, pC |-> Zero,
           pT |-> Zero, post |-> Zero]

Init ==
    /\ tData \in Lists(MaxLen)
    /\ \E smp \in Samples :
          /\ hsvSample = smp.hsv
          /\ cSample = smp.c
          /\ texture = smp.t
    /\ class = 0
    /\ post = <<>>
    /\ line = NoLine
    /\ locals = [a \in Attrs |-> [mean |-> Int2Dbl(0), sd |-> Sqrt(Int2Dbl(0))]]
    /\ pc = "loop"

\* mutant: a class that scores 0.0 is not added to the list
Iterate_SkipZero ==
    /\ pc = "loop"
    /\ class < NCLASSES
    /\ LET name == classes[class + 1].class
           r == calcPosterior(tData, name, hsvSample, cSample, texture)
       IN  /\ line' = r
           /\ locals' = [a \in Attrs |-> PDFLocals(tData, name, a)]
           /\ post' = IF r.post = Zero THEN post ELSE addPosterior(post, name, r.post)
    /\ class' = class + 1
    /\ UNCHANGED <<tData, hsvSample, cSample, texture, pc>>

\* one pass of the for loop
Iterate ==
    /\ pc = "loop"
    /\ class < NCLASSES
    /\ LET name == classes[class + 1].class
           r == calcPosterior(tData, name, hsvSample, cSample, texture)
       IN  /\ line' = r
           /\ locals' = [a \in Attrs |-> PDFLocals(tData, name, a)]
           /\ post' = addPosterior(post, name, r.post)
    /\ class' = class + 1
    /\ UNCHANGED <<tData, hsvSample, cSample, texture, pc>>

\* the loop condition fails: return post
Return ==
    /\ pc = "loop"
    /\ ~(class < NCLASSES)
    /\ pc' = "done"
    /\ UNCHANGED <<tData, hsvSample, cSample, texture, class, post, line, locals>>

Next == Iterate \/ Return

Spec == Init /\ [][Next]_vars

\* ------------------------------------------------ reference definitions
\* the density of attribute a in the line printed
DensityOf(l, a) ==
    IF a = HUE THEN l.pH
    ELSE IF a = SATURATION THEN l.pS
    ELSE IF a = VALUE THEN l.pV
    ELSE IF a = COMPACTNESS THEN l.pC
    ELSE l.pT

\* positions of the records of a class with hue, saturation, value and texture present
Qualifying(items, name) ==
    {i \in DOMAIN items :
        /\ items[i].fruitName = name
        /\ items[i].h # 0 /\ items[i].s # 0 /\ items[i].v # 0 /\ items[i].t # 0}

\* positions of the records of a class, whatever their features
OfClass(items, name) == {i \in DOMAIN items : items[i].fruitName = name}

RECURSIVE SumOver(_, _, _)
SumOver(items, S, a) ==
    IF S = {} THEN 0
    ELSE LET i == CHOOSE j \in S : TRUE
         IN  items[i][a] + SumOver(items, S \ {i}, a)

\* sum / count over the qualifying records, 0 when there is none
AverageOf(items, name, a) ==
    LET Q == Qualifying(items, name)
    IN  IF Q = {} THEN Fin(0, 1) ELSE Fin(SumOver(items, Q, a), Cardinality(Q))

\* numerator of sum((x - m)^2) over S for m = n/d, over the denominator d^2
RECURSIVE SqDevOver(_, _, _, _)
SqDevOver(items, S, a, m) ==
    IF S = {} THEN 0
    ELSE LET i == CHOOSE j \in S : TRUE
             dev == items[i][a] * m.d - m.n
         IN  dev * dev + SqDevOver(items, S \ {i}, a, m)

\* the population variance of the qualifying records (there is at least one)
PopulationVarianceOf(items, name, a) ==
    LET Q == Qualifying(items, name)
        m == AverageOf(items, name, a)
    IN  Fin(SqDevOver(items, Q, a, m), m.d * m.d * Cardinality(Q))

\* the list without its i-th record
Without(items, i) == SubSeq(items, 1, i - 1) \o SubSeq(items, i + 1, Len(items))

Scored == class > 0

\* ---------------------------------------------------------------- claims
\* C1: the mean of every feature of the class just scored is the sum of that
\* feature over the records of the class with hue, saturation, value and texture
\* non-zero, divided by their number, and 0 when there is no such record.
C1_MeanIsFilteredAverage ==
    Scored => \A a \in Attrs : locals[a].mean = AverageOf(tData, line.class, a)

\* two apples qualify, one of hue 1 and one of hue 2: the mean is 3/2
C1_Witness ==
    /\ Scored
    /\ line.class = "apple"
    /\ Cardinality(Qualifying(tData, "apple")) = 2
    /\ locals[HUE].mean = Fin(3, 2)

\* C2 (as claimed): the standard deviation of every feature is the population
\* standard deviation of the records the mean was taken over.
C2_SDOverTheMeansSubset ==
    (Scored /\ Qualifying(tData, line.class) # {}) =>
        \A a \in Attrs : locals[a].sd = Sqrt(PopulationVarianceOf(tData, line.class, a))

\* C3: a record of the class with hue, saturation, value or texture zero changes
\* no mean and no standard deviation: they are those of the list without it.
C3_InvalidRecordIgnored ==
    Scored =>
        \A i \in OfClass(tData, line.class) \ Qualifying(tData, line.class) :
            \A a \in Attrs : PDFLocals(Without(tData, i), line.class, a) = locals[a]

\* an apple without texture next to an apple that qualifies
C3_Witness ==
    /\ Scored
    /\ line.class = "apple"
    /\ \E i \in OfClass(tData, "apple") : tData[i].t = 0 /\ tData[i].h # 0
    /\ Qualifying(tData, "apple") # {}
    /\ Gt0(locals[HUE].mean)

\* C4: a density is 0.0 whenever the standard deviation is not strictly positive,
\* and no density is infinite or not a number.
C4_NoSpreadNoDensity ==
    Scored =>
        \A a \in Attrs :
            /\ ~SqrtGt0(locals[a].sd) => DensityOf(line, a) = Zero
            /\ DensityOf(line, a).k \in {"zero", "pos"}

\* two apples of the same hue qualify: the hue sd is 0 and the hue density 0.0
C4_Witness ==
    /\ Scored
    /\ line.class = "apple"
    /\ Cardinality(Qualifying(tData, "apple")) = 2
    /\ locals[HUE].sd = Sqrt(Fin(0, 1))
    /\ line.pH = Zero

\* C5: the posterior is the product of the hue, saturation, value and compactness
\* densities, and is the same whatever the sample's texture is.
C5_TextureNotInPosterior ==
    Scored =>
        /\ line.post = Times(Times(Times(line.pH, line.pS), line.pV), line.pC)
        /\ \A t2 \in (0..MaxVal) \ {texture} :
              calcPosterior(tData, line.class, hsvSample, cSample, t2).post = line.post

\* a positive posterior, and another texture that changes the texture density
C5_Witness ==
    /\ Scored
    /\ line.post.k = "pos"
    /\ line.pT.k = "pos"
    /\ \E t2 \in (0..MaxVal) \ {texture} :
          calcPosterior(tData, line.class, hsvSample, cSample, t2).pT # line.pT

\* C6: the classes are visited once each in list order, and the list returned has
\* one entry per class, in that order, holding the class's label and posterior.
C6_OneEntryPerClassInOrder ==
    /\ Len(post) = class
    /\ Scored => line.class = classes[class].class
    /\ \A i \in 1..Len(post) : post[i].class = classes[i].class
    /\ pc = "done" =>
          /\ Len(post) = NCLASSES
          /\ \A i \in 1..NCLASSES :
                post[i].prob =
                    calcPosterior(tData, classes[i].class, hsvSample, cSample, texture).post

\* returned, every score 0.0
C6_Witness ==
    /\ pc = "done"
    /\ tData # <<>>
    /\ \A i \in 1..Len(post) : post[i].prob = Zero

\* C7: for a class without training records every mean is 0, every density is
\* 0.0 and the posterior is 0.0.
C7_ClassWithoutRecords ==
    (Scored /\ OfClass(tData, line.class) = {}) =>
        /\ \A a \in Attrs : locals[a].mean = Fin(0, 1) /\ DensityOf(line, a) = Zero
        /\ line.post = Zero

\* kiwi scored against a list of MaxLen records of other classes
C7_Witness ==
    /\ Scored
    /\ line.class = "kiwi"
    /\ Len(tData) = MaxLen
    /\ line.post = Zero

\* C8 (as claimed): when no record passes the deviation's guard, the standard
\* deviation returned is a defined number, not the not-a-number of 0.0/0.0.
C8_SDDefinedWithoutRecords ==
    (Scored /\ \A i \in Qualifying(tData, line.class) : tData[i].c = 0) =>
        \A a \in Attrs : locals[a].sd.radicand.k = "fin"

\* C9 (as claimed): a zero density of any of the five features zeroes the posterior.
C9_AnyZeroDensityZeroesPosterior ==
    (Scored /\ \E a \in Attrs : DensityOf(line, a) = Zero) => line.post = Zero

\* C9 (amended): a zero density of hue, saturation, value or compactness zeroes
\* the posterior; a zero texture density does not.
C9_ZeroFactorZeroesPosterior ==
    (Scored /\ \E a \in Attrs \ {TEXTURE} : DensityOf(line, a) = Zero) => line.post = Zero

\* the hue density alone is 0.0
C9_Witness ==
    /\ Scored
    /\ line.pH = Zero
    /\ line.pS.k = "pos" /\ line.pV.k = "pos" /\ line.pC.k = "pos" /\ line.pT.k = "pos"
    /\ line.post = Zero

\* every record of the class lacks compactness and nothing else
AllLackCompactness(items, name) ==
    /\ OfClass(items, name) # {}
    /\ \A i \in OfClass(items, name) :
          /\ items[i].c = 0
          /\ items[i].h # 0 /\ items[i].s # 0 /\ items[i].v # 0 /\ items[i].t # 0

\* C10: if every record of the class lacks compactness and nothing else, the mean
\* is taken over all of them (the hue mean is not 0), the standard deviation over
\* none of them, so every density and the posterior are 0.0.
C10_CompactnessMissingEverywhere ==
    (Scored /\ AllLackCompactness(tData, line.class)) =>
        /\ \A a \in Attrs :
              /\ locals[a].mean =
                    Fin(SumOver(tData, OfClass(tData, line.class), a),
                        Cardinality(OfClass(tData, line.class)))
              /\ locals[a].sd = Sqrt(NaN)
              /\ DensityOf(line, a) = Zero
        /\ Gt0(locals[HUE].mean)
        /\ line.post = Zero

\* two apples, both without compactness
C10_Witness ==
    /\ Scored
    /\ line.class = "apple"
    /\ AllLackCompactness(tData, "apple")
    /\ Cardinality(OfClass(tData, "apple")) = 2
    /\ Gt0(locals[HUE].mean)
    /\ line.post = Zero

====
